---- MODULE Spec2Model ----
(***************************************************************************)
(* Model of the Matrix daemon of jfa-go (src/matrix.go): the sync loop's   *)
(* handleMessage, the !lang command, SendStart, send, Send and Shutdown,   *)
(* over the daemon's maps tokens, languages and isEncrypted and the        *)
(* application's stored bindings app.storage.matrix.                       *)
(*                                                                         *)
(* Strings are TLA+ strings.  A message body is kept as the sequence of    *)
(* its pieces (words and single spaces) and Split computes what            *)
(* strings.Split(body, " ") returns for it.  Go maps are functions whose   *)
(* DOMAIN is the set of keys present.                                      *)
(*                                                                         *)
(* The code takes no lock.  The write of d.tokens in SendStart and the     *)
(* read of d.isEncrypted in send are modelled as intervals: the flow       *)
(* enters the access in one step and completes it in a later one, so that  *)
(* other flows may run in between.  When an access is made while another   *)
(* flow is inside a conflicting access to the same map (a data race), the  *)
(* Go runtime may stop the process with "fatal error: concurrent map       *)
(* writes" or "concurrent map read and map write" (crashed), or the access *)
(* may go through.                                                         *)
(***************************************************************************)
EXTENDS Integers, Sequences, FiniteSets, TLC

\* ------------------------------------------------------------ bounds
\* Rooms that may exist on the homeserver: 1..MaxRooms.
MaxRooms == 2
\* Longest recipient list passed to Send.
MaxRecipients == 2

\* ------------------------------------------------------------ constants
\* d.start, the daemon's start time in milliseconds (newMatrixDaemon).
start == 1
\* d.userID, the bot's own user ID.
userID == "@bot"
\* Default language of handleMessage and SendStart.
DefaultLang == "en-us"
\* app.storage.lang.Telegram: the recognized language codes.
Telegram == {"en-us", "fr"}

\* ------------------------------------------------------------ inputs
RoomIDs == 1..MaxRooms
\* PINs genAuthToken may return: one for every room that can be created.
PINS == 1..MaxRooms
Senders == {userID, "@alice"}
AccountUsers == {"alice"}
\* Event timestamps: before the start, and at it.
Timestamps == {start - 1, start}
\* Concurrent callers of SendStart, and the caller of Send.
Starters == {"s1", "s2"}
\* No event is being handled.
NoEvt == [RoomID |-> 0, Sender |-> "", Timestamp |-> 0, body |-> <<>>]
\* evt.Content.Raw["body"] absent or not a string.
NoBody == <<"<no body>">>
\* Bodies of incoming events, as sequences of pieces.
Bodies ==
    { <<"!lang">>,
      <<"!lang", " ", "fr">>,
      <<"!lang", " ", "de">>,
      <<"!lang", " ">>,
      <<"!lang", " ", " ", "fr">>,
      <<"!lang", " ", "fr", " ", "fr">>,
      <<"hello", " ", "fr">>,
      NoBody }
Events ==
    [RoomID : RoomIDs, Sender : Senders, Timestamp : Timestamps, body : Bodies]

\* MatrixUser records; Contact is never read or written by the daemon.
MatrixUser(room, enc, user, lang) ==
    [RoomID |-> room, Encrypted |-> enc, UserID |-> user, Lang |-> lang]
\* UnverifiedUser records.
UnverifiedUser(verified, user) == [Verified |-> verified, User |-> user]

VARIABLES
    Stopped,      \* d.Stopped
    closed,       \* d.ShutdownChannel has been closed
    syncing,      \* d.bot.Sync() is running and delivers events
    crashed,      \* the process died of a runtime fatal error or panic
    tokens,       \* d.tokens: PIN -> UnverifiedUser
    languages,    \* d.languages: room -> language code
    isEncrypted,  \* d.isEncrypted: room -> BOOLEAN
    matrix,       \* d.app.storage.matrix: room -> MatrixUser
    rooms,        \* rooms that exist on the homeserver
    syncEvt,      \* the event the syncer is passing to handleMessage, if any
    ss,           \* SendStart callers: position and locals
    sd,           \* the Send caller: position and remaining recipients
    out           \* what the last step did: collaborator calls and return value

vars == <<Stopped, closed, syncing, crashed, tokens, languages, isEncrypted,
          matrix, rooms, syncEvt, ss, sd, out>>

\* ------------------------------------------------------------ helpers
\* m[k] = v of a Go map.
Put(m, k, v) == [x \in (DOMAIN m) \cup {k} |-> IF x = k THEN v ELSE m[x]]
EmptyMap == [x \in {} |-> 0]

\* One call of a collaborator: the API, the room, and whether it succeeded
\* (for EncryptRoom: whether the room is encrypted).
Call(api, room, ok) == [api |-> api, room |-> room, ok |-> ok]

NoUser == MatrixUser(0, FALSE, "", "")
Quiet == [op |-> "step", proc |-> "", calls |-> <<>>, ret |-> "none",
          pin |-> 0, user |-> NoUser]
Did(op, proc, calls, ret, pin, user) ==
    [op |-> op, proc |-> proc, calls |-> calls, ret |-> ret,
     pin |-> pin, user |-> user]

\* strings.Split(body, " ") on the pieces of a body: the words between the
\* single spaces, empty words included.
RECURSIVE SplitFrom(_, _, _)
SplitFrom(pieces, word, acc) ==
    IF pieces = <<>> THEN Append(acc, word)
    ELSE IF Head(pieces) = " "
         THEN SplitFrom(Tail(pieces), "", Append(acc, word))
         ELSE SplitFrom(Tail(pieces), word \o Head(pieces), acc)
Split(pieces) == SplitFrom(pieces, "", <<>>)

IdleStart == [pc |-> "idle", userID |-> "", roomID |-> 0, encrypted |-> FALSE,
              pin |-> 0]
IdleSend == [pc |-> "idle", left |-> 0, user |-> NoUser]

\* ------------------------------------------------------------ data races
\* The map accesses a flow is inside, as <<map, mode>>.
StartAccess(p) ==
    CASE ss[p].pc = "store" -> {<<"tokens", "w">>}
      [] ss[p].pc = "send"  -> {<<"isEncrypted", "r">>}
      [] OTHER              -> {}
SendAccess ==
    IF sd.pc = "send" THEN {<<"isEncrypted", "r">>} ELSE {}
Flows == Starters \cup {"send"}
Access(f) == IF f \in Starters THEN StartAccess(f) ELSE SendAccess
Conflict(a, b) == a[1] = b[1] /\ (a[2] = "w" \/ b[2] = "w")
\* Flow f makes or completes access a while another flow is inside a conflicting one.
Racing(f, a) ==
    \E g \in Flows \ {f} : \E b \in Access(g) : Conflict(a, b)

\* The runtime detects the race and stops the process.
Fatal ==
    /\ crashed' = TRUE
    /\ out' = Did("fatal", "", <<>>, "none", 0, NoUser)
    /\ UNCHANGED <<Stopped, closed, syncing, tokens, languages, isEncrypted,
                   matrix, rooms, syncEvt, ss, sd>>

\* ------------------------------------------------------------ construction
\* newMatrixDaemon: the caches are seeded from the stored bindings.
SeedLanguages(stored) ==
    [r \in {x \in DOMAIN stored : stored[x].Lang # ""} |-> stored[r].Lang]
SeedEncrypted(stored) == [r \in DOMAIN stored |-> stored[r].Encrypted]

\* app.storage.matrix when the daemon starts: no binding, or the binding of
\* room 1, with no language or with one whose language file is gone.
StoredBindings ==
    { EmptyMap,
      [r \in {1} |-> MatrixUser(r, FALSE, "alice", "")],
      [r \in {1} |-> MatrixUser(r, TRUE, "alice", "de")] }

Init ==
    /\ Stopped = FALSE
    /\ closed = FALSE
    /\ syncing = TRUE
    /\ crashed = FALSE
    /\ tokens = EmptyMap
    /\ matrix \in StoredBindings
    /\ languages = SeedLanguages(matrix)
    /\ isEncrypted = SeedEncrypted(matrix)
    /\ rooms = DOMAIN matrix
    /\ syncEvt = NoEvt
    /\ ss = [p \in Starters |-> IdleStart]
    /\ sd = IdleSend
    /\ out = Quiet

\* ------------------------------------------------------------ handleMessage
\* Mutant: every code passes for a recognized one.
Recognized_Any(code) == TRUE

\* code is a key of app.storage.lang.Telegram.
Recognized(code) == code \in Telegram

\* The language handleMessage passes to a command: the cached language of
\* the room when it is a recognized one, en-us otherwise.
RoomLang(room) ==
    IF room \in DOMAIN languages /\ Recognized(languages[room])
    THEN languages[room]
    ELSE DefaultLang

\* A return of handleMessage or commandLang that touches nothing; op names
\* the return statement taken.
Return(op) ==
    /\ out' = Did(op, "sync", <<>>, "none", 0, NoUser)
    /\ UNCHANGED <<languages, matrix, crashed>>

\* Mutant: the language of a room is set only when none is cached.
SetLanguage_KeepExisting(room, code) ==
    IF room \in DOMAIN languages THEN languages ELSE Put(languages, room, code)

\* d.languages[evt.RoomID] = code.
SetLanguage(room, code) == Put(languages, room, code)

\* Mutant: the copy u is changed but never written back to the map.
SetBinding_NotWritten(room, code) == matrix

\* u.Lang = code; d.app.storage.matrix[string(evt.RoomID)] = u.
SetBinding(room, code) ==
    Put(matrix, room, [matrix[room] EXCEPT !.Lang = code])

\* commandLang(evt, code, lang).
commandLang(evt, code, lang) ==
    IF code = ""
    THEN \* the listing of the languages, sent with SendText; an error is logged
         /\ \E ok \in BOOLEAN :
              out' = Did("list", "sync",
                         <<Call("SendText", evt.RoomID, ok)>>, "none", 0, NoUser)
         /\ UNCHANGED <<languages, matrix, crashed>>
    ELSE IF ~Recognized(code)
    THEN Return("unrecognized")
    ELSE /\ languages' = SetLanguage(evt.RoomID, code)
         /\ IF evt.RoomID \in DOMAIN matrix
            THEN /\ matrix' = SetBinding(evt.RoomID, code)
                 /\ \E ok \in BOOLEAN :
                      out' = Did("set", "sync",
                                 <<Call("storeMatrixUsers", evt.RoomID, ok)>>,
                                 "none", 0, NoUser)
            ELSE /\ matrix' = matrix
                 /\ out' = Did("set", "sync", <<>>, "none", 0, NoUser)
         /\ crashed' = crashed

\* The type assertion evt.Content.Raw["body"].(string) panics.
BodyPanic ==
    /\ crashed' = TRUE
    /\ out' = Did("panic", "sync", <<>>, "none", 0, NoUser)
    /\ UNCHANGED <<languages, matrix>>

\* Mutant: any number of arguments will do, the last one is the code.
Dispatch_LastToken(evt, sects, lang) ==
    IF sects[1] = "!lang"
    THEN IF Len(sects) >= 2
         THEN commandLang(evt, sects[Len(sects)], lang)
         ELSE commandLang(evt, "", lang)
    ELSE Return("ignore")

\* The switch on sects[0].
Dispatch(evt, sects, lang) ==
    IF sects[1] = "!lang"
    THEN IF Len(sects) = 2
         THEN commandLang(evt, sects[2], lang)
         ELSE commandLang(evt, "", lang)
    ELSE Return("ignore")

\* Mutant: the timestamp filter compares with <=.
Old_Inclusive(evt) == evt.Timestamp <= start

\* Mutant: the sender filter is inverted.
Self_Inverted(evt) == evt.Sender # userID

\* The two filters at the head of handleMessage.
Old(evt) == evt.Timestamp < start
Self(evt) == evt.Sender = userID

handleMessage(evt) ==
    /\ IF Old(evt) THEN Return("old")
       ELSE IF Self(evt) THEN Return("self")
       ELSE IF evt.body = NoBody THEN BodyPanic
       ELSE Dispatch(evt, Split(evt.body), RoomLang(evt.RoomID))
    /\ UNCHANGED <<Stopped, closed, syncing, tokens, isEncrypted, rooms, ss, sd>>

\* The syncer takes the next event of a room the bot is in off the stream
\* (run: syncer.OnEventType(event.EventMessage, d.handleMessage)); events
\* are handled one at a time.
Sync_Deliver(evt) ==
    /\ syncing /\ ~crashed
    /\ syncEvt = NoEvt
    /\ evt.RoomID \in rooms
    /\ syncEvt' = evt
    /\ out' = Quiet
    /\ UNCHANGED <<Stopped, closed, syncing, crashed, tokens, languages,
                   isEncrypted, matrix, rooms, ss, sd>>

\* handleMessage runs on the event.
Sync_Handle ==
    /\ ~crashed
    /\ syncEvt # NoEvt
    /\ handleMessage(syncEvt)
    /\ syncEvt' = NoEvt

\* ------------------------------------------------------------ SendStart
\* Mutant: a room that exists already is returned when there is one.
NewRoom_Existing == IF rooms = {} THEN 1 ELSE CHOOSE r \in rooms : TRUE

\* The room a successful d.bot.CreateRoom returns: one that did not exist.
NewRoom == Cardinality(rooms) + 1

\* genAuthToken(): a PIN that is not pending when it is generated.
genAuthToken == PINS \ DOMAIN tokens

\* EncryptRoom(d, room, userID): the negotiation's result is recorded in
\* the room's cache entry.
EncryptRoom(room, encrypted) == Put(isEncrypted, room, encrypted)

\* Mutant: send never consults the cache.
send_AlwaysPlain(roomID) == "SendMessageEvent"

\* Mutant: send takes a room without a cache entry for an encrypted one.
send_AbsentEncrypted(roomID) ==
    IF roomID \in DOMAIN isEncrypted /\ ~isEncrypted[roomID]
    THEN "SendMessageEvent"
    ELSE "SendEncrypted"

\* send(content, roomID): the transport the cache selects for the room.
send(roomID) ==
    IF roomID \in DOMAIN isEncrypted /\ isEncrypted[roomID]
    THEN "SendEncrypted"
    ELSE "SendMessageEvent"

\* Mutant: the binding is stored as not encrypted.
NewToken_Plain(roomID, user, encrypted) ==
    UnverifiedUser(FALSE, MatrixUser(roomID, FALSE, user, DefaultLang))

\* Mutant: the token is stored as verified.
NewToken_Verified(roomID, user, encrypted) ==
    UnverifiedUser(TRUE, MatrixUser(roomID, encrypted, user, DefaultLang))

\* The entry SendStart stores in d.tokens.
NewToken(roomID, user, encrypted) ==
    UnverifiedUser(FALSE, MatrixUser(roomID, encrypted, user, DefaultLang))

\* Mutant: the error of the welcome send is ignored.
StartResult_AlwaysTrue(sendOK) == "true"

\* SendStart's result from the welcome send's outcome.
StartResult(sendOK) == IF sendOK THEN "true" ELSE "false"

\* SendStart(userID) up to the write of d.tokens.  d.bot.CreateRoom fails:
\* SendStart logs and returns false.  Otherwise the room exists, EncryptRoom
\* negotiates encryption and records the result, CreateRoom returns, the
\* PIN is generated and the write of d.tokens[pin] starts.
SS_CreateRoom(p, user) ==
    /\ ~crashed
    /\ ss[p].pc = "idle"
    /\ \/ /\ out' = Did("SendStart", p, <<Call("CreateRoom", 0, FALSE)>>,
                        "false", 0, NoUser)
          /\ UNCHANGED <<crashed, isEncrypted, rooms, ss>>
       \/ /\ NewRoom \in RoomIDs
          /\ \/ /\ rooms' = rooms \cup {NewRoom}
                /\ \E encrypted \in BOOLEAN, pin \in genAuthToken :
                     /\ isEncrypted' = EncryptRoom(NewRoom, encrypted)
                     /\ ss' = [ss EXCEPT ![p] = [pc |-> "store",
                                                 userID |-> user,
                                                 roomID |-> NewRoom,
                                                 encrypted |-> encrypted,
                                                 pin |-> pin]]
                /\ out' = Quiet
                /\ crashed' = crashed
             \/ /\ Racing(p, <<"isEncrypted", "w">>)
                /\ crashed' = TRUE
                /\ rooms' = rooms \cup {NewRoom}
                /\ out' = Did("fatal", "", <<>>, "none", 0, NoUser)
                /\ UNCHANGED <<isEncrypted, ss>>
    /\ UNCHANGED <<Stopped, closed, syncing, tokens, languages, matrix,
                   syncEvt, sd>>

\* d.tokens[pin] = UnverifiedUser{...} completes; send starts to read
\* d.isEncrypted[roomID].
SS_Store(p) ==
    /\ ~crashed
    /\ ss[p].pc = "store"
    /\ \/ /\ tokens' = Put(tokens, ss[p].pin,
                           NewToken(ss[p].roomID, ss[p].userID, ss[p].encrypted))
          /\ ss' = [ss EXCEPT ![p].pc = "send"]
          /\ out' = Quiet
          /\ UNCHANGED <<Stopped, closed, syncing, crashed, languages,
                         isEncrypted, matrix, rooms, syncEvt, sd>>
       \/ /\ Racing(p, <<"tokens", "w">>)
          /\ Fatal

\* send completes: the welcome message goes out on the transport the cache
\* selects, and SendStart returns.  (A write of d.isEncrypted made during
\* the read is a race at the writer's step, in SS_CreateRoom.)
SS_Send(p) ==
    /\ ~crashed
    /\ ss[p].pc = "send"
    /\ \E ok \in BOOLEAN :
         out' = Did("SendStart", p,
                    <<Call("CreateRoom", ss[p].roomID, TRUE),
                      Call("EncryptRoom", ss[p].roomID, ss[p].encrypted),
                      Call(send(ss[p].roomID), ss[p].roomID, ok)>>,
                    StartResult(ok), ss[p].pin,
                    MatrixUser(ss[p].roomID, ss[p].encrypted,
                               ss[p].userID, DefaultLang))
    /\ ss' = [ss EXCEPT ![p] = IdleStart]
    /\ UNCHANGED <<Stopped, closed, syncing, crashed, tokens, languages,
                   isEncrypted, matrix, rooms, syncEvt, sd>>

\* ------------------------------------------------------------ Send
\* The records a caller may pass as recipients.  The list itself is an
\* input of the call; the model draws its length at the call and each
\* element when the loop reaches it.
Recipients == [RoomID : RoomIDs, Encrypted : BOOLEAN, UserID : AccountUsers,
               Lang : {DefaultLang}]

\* What Send does after a delivery: return the error, or go on.
AfterDelivery(ok) == IF ok THEN "none" ELSE "err"

\* Send(message, users...) is called with n recipients: the content is
\* built and the loop starts.
Send_Call(n) ==
    /\ ~crashed
    /\ sd.pc = "idle"
    /\ sd' = [pc |-> "loop", left |-> n, user |-> NoUser]
    /\ out' = Quiet
    /\ UNCHANGED <<Stopped, closed, syncing, crashed, tokens, languages,
                   isEncrypted, matrix, rooms, syncEvt, ss>>

\* The head of the loop: past the last recipient Send returns nil; a
\* recipient whose record says Encrypted is sent to with SendEncrypted; for
\* any other, send starts to read d.isEncrypted.
Send_Loop ==
    /\ ~crashed
    /\ sd.pc = "loop"
    /\ IF sd.left = 0
       THEN /\ sd' = IdleSend
            /\ out' = Did("Send", "send", <<>>, "nil", 0, NoUser)
       ELSE \E user \in Recipients :
              IF user.Encrypted
              THEN \E ok \in BOOLEAN :
                     /\ out' = Did("Send", "send",
                                   <<Call("SendEncrypted", user.RoomID, ok)>>,
                                   AfterDelivery(ok), 0, user)
                     /\ sd' = IF ok THEN [sd EXCEPT !.left = sd.left - 1]
                              ELSE IdleSend
              ELSE /\ sd' = [sd EXCEPT !.pc = "send", !.user = user]
                   /\ out' = Quiet
    /\ UNCHANGED <<Stopped, closed, syncing, crashed, tokens, languages,
                   isEncrypted, matrix, rooms, syncEvt, ss>>

\* send completes for the recipient the loop is at.
Send_send ==
    /\ ~crashed
    /\ sd.pc = "send"
    /\ \E ok \in BOOLEAN :
         /\ out' = Did("Send", "send",
                       <<Call(send(sd.user.RoomID), sd.user.RoomID, ok)>>,
                       AfterDelivery(ok), 0, sd.user)
         /\ sd' = IF ok THEN [pc |-> "loop", left |-> sd.left - 1,
                              user |-> NoUser]
                  ELSE IdleSend
    /\ UNCHANGED <<Stopped, closed, syncing, crashed, tokens, languages,
                   isEncrypted, matrix, rooms, syncEvt, ss>>

\* ------------------------------------------------------------ Shutdown
\* CryptoShutdown, StopSync, Stopped = true, close(ShutdownChannel); closing
\* a closed channel panics.
Shutdown ==
    /\ ~crashed
    /\ syncing' = FALSE
    /\ Stopped' = TRUE
    /\ closed' = TRUE
    /\ crashed' = closed
    /\ out' = Did(IF closed THEN "panic" ELSE "Shutdown", "shutdown",
                  <<Call("StopSync", 0, TRUE)>>, "none", 0, NoUser)
    /\ UNCHANGED <<tokens, languages, isEncrypted, matrix, rooms, syncEvt,
                   ss, sd>>

\* ------------------------------------------------------------ specification
\* A step of the sync loop.
Sync ==
    \/ \E evt \in Events : Sync_Deliver(evt)
    \/ Sync_Handle

\* A step of a SendStart call made by a caller of S.
Start(S) ==
    \/ \E p \in S, user \in AccountUsers : SS_CreateRoom(p, user)
    \/ \E p \in S : SS_Store(p)
    \/ \E p \in S : SS_Send(p)

\* A step of the Send call.
Sending ==
    \/ \E n \in 0..MaxRecipients : Send_Call(n)
    \/ Send_Loop
    \/ Send_send

Next == Sync \/ Start(Starters) \/ Sending \/ Shutdown

Spec == Init /\ [][Next]_vars

\* Spec is the product of the dispatcher's state (languages, matrix) and the
\* senders' state (tokens, isEncrypted, ss, sd): handleMessage writes only
\* the former, SendStart and Send only the latter.  The two projections:

\* the dispatcher, with pairings started one at a time;
NextDispatch == Sync \/ Start({"s1"})
SpecDispatch == Init /\ [][NextDispatch]_vars

\* the callers of SendStart and Send running concurrently.
NextSend == Start(Starters) \/ Sending
SpecSend == Init /\ [][NextSend]_vars

\* the callers of SendStart and Send around Shutdown;
NextStop == Start({"s1"}) \/ Sending \/ Shutdown
SpecStop == Init /\ [][NextStop]_vars

\* all four operations, the dispatcher receiving accepted "!lang fr" events.
LifeEvents ==
    {evt \in Events : /\ evt.Timestamp = start /\ evt.Sender # userID
                      /\ evt.body = <<"!lang", " ", "fr">>}
NextLife ==
    \/ \E evt \in LifeEvents : Sync_Deliver(evt)
    \/ Sync_Handle
    \/ Start({"s1"})
    \/ Sending
    \/ Shutdown
SpecLife == Init /\ [][NextLife]_vars

\* ------------------------------------------------------------ claims
\* The step in which handleMessage runs on syncEvt.
Handled == syncEvt # NoEvt /\ syncEvt' = NoEvt
\* syncEvt passes the two filters.
Accepted == syncEvt.Timestamp >= start /\ syncEvt.Sender # userID
\* The room's cache entry says encrypted.
CachedEncrypted(room) == room \in DOMAIN isEncrypted /\ isEncrypted[room]
\* The calls of the last step that deliver a message to a room.
IsDelivery(call) == call.api \in {"SendEncrypted", "SendMessageEvent"}

\* C1: no two flows are inside accesses to the same map at the same time
\* when at least one of them writes.
C1_MutualExclusion ==
    \A f \in Flows : \A g \in Flows \ {f} :
        \A a \in Access(f) : \A b \in Access(g) : ~Conflict(a, b)

\* C2: when SendStart stores its PIN, the PIN is not a key of tokens, and
\* the number of pending tokens grows by one.
C2_PinFresh ==
    [][\A p \in Starters :
         (ss[p].pc = "store" /\ ss'[p].pc = "send") =>
            /\ ss[p].pin \notin DOMAIN tokens
            /\ Cardinality(DOMAIN tokens') = Cardinality(DOMAIN tokens) + 1]_vars

\* C3: once the cache says a room is encrypted it goes on saying so, and
\* every delivery to the room made by Send or send uses SendEncrypted.
C3_StickyEncryption ==
    [][\A r \in DOMAIN isEncrypted :
         isEncrypted[r] =>
            /\ r \in DOMAIN isEncrypted' /\ isEncrypted'[r]
            /\ \A i \in DOMAIN out'.calls :
                 (IsDelivery(out'.calls[i]) /\ out'.calls[i].room = r)
                    => out'.calls[i].api = "SendEncrypted"]_vars

C3_Witness ==
    /\ out.op = "Send" /\ out.calls # <<>>
    /\ ~out.user.Encrypted
    /\ CachedEncrypted(out.user.RoomID)
    /\ out.calls[1] = Call("SendEncrypted", out.user.RoomID, TRUE)

\* C4 as stated: Send delivers through the EncryptionGateway exactly when
\* the cached flag of the recipient's room is true.
C4_CacheAlone ==
    (out.op = "Send" /\ out.calls # <<>>) =>
        (out.calls[1].api = "SendEncrypted" <=> CachedEncrypted(out.user.RoomID))

\* C4 as amended: Send delivers through the EncryptionGateway exactly when
\* the recipient record says Encrypted or the cached flag of its room is
\* true, and through the plaintext transport otherwise.
C4_RecordOrCache ==
    (out.op = "Send" /\ out.calls # <<>>) =>
        /\ Len(out.calls) = 1
        /\ out.calls[1].room = out.user.RoomID
        /\ IsDelivery(out.calls[1])
        /\ out.calls[1].api = "SendEncrypted"
              <=> (out.user.Encrypted \/ CachedEncrypted(out.user.RoomID))

C4_Witness ==
    /\ out.op = "Send" /\ out.calls # <<>>
    /\ out.user.Encrypted
    /\ out.user.RoomID \notin DOMAIN isEncrypted
    /\ out.calls[1].api = "SendEncrypted"

\* C5: SendStart returns true exactly when the room was created and the
\* welcome send succeeded; when room creation fails it returns false and
\* sends nothing.
C5_StartResult ==
    out.op = "SendStart" =>
        /\ out.ret \in {"true", "false"}
        /\ out.calls[1].api = "CreateRoom"
        /\ out.ret = "true" <=>
              (out.calls[1].ok /\ Len(out.calls) = 3 /\ IsDelivery(out.calls[3])
               /\ out.calls[3].ok)
        /\ ~out.calls[1].ok =>
              (out.ret = "false" /\ \A i \in DOMAIN out.calls :
                                       ~IsDelivery(out.calls[i]))

C5_Witness ==
    /\ out.op = "SendStart" /\ out.ret = "false"
    /\ out.calls[1].ok
    /\ Len(out.calls) = 3 /\ IsDelivery(out.calls[3]) /\ ~out.calls[3].ok

\* C6: the binding SendStart stores carries the negotiation's result, and
\* the welcome message goes out on the transport matching it.
C6_WelcomeTransport ==
    [][\A p \in Starters :
         /\ (ss[p].pc = "store" /\ ss'[p].pc = "send") =>
               /\ ss[p].pin \in DOMAIN tokens'
               /\ tokens'[ss[p].pin].User.RoomID = ss[p].roomID
               /\ tokens'[ss[p].pin].User.Encrypted = ss[p].encrypted
         /\ (ss[p].pc = "send" /\ ss'[p].pc = "idle") =>
               /\ out'.calls[2] = Call("EncryptRoom", ss[p].roomID, ss[p].encrypted)
               /\ out'.calls[3].room = ss[p].roomID
               /\ out'.calls[3].api = IF ss[p].encrypted THEN "SendEncrypted"
                                      ELSE "SendMessageEvent"]_vars

C6_Witness ==
    /\ out.op = "SendStart" /\ Len(out.calls) = 3
    /\ out.calls[2].ok
    /\ out.calls[3].api = "SendEncrypted"
    /\ out.pin \in DOMAIN tokens
    /\ tokens[out.pin].User.RoomID = out.calls[3].room
    /\ tokens[out.pin].User.Encrypted

\* C7: an event older than the daemon's start is discarded: no reply, no
\* call of the store, languages and bindings unchanged.  An event stamped
\* with the start time is not discarded by the timestamp filter.
C7_OldEventsDiscarded ==
    [][Handled =>
         /\ syncEvt.Timestamp < start =>
               /\ out'.op = "old" /\ out'.calls = <<>>
               /\ UNCHANGED <<languages, matrix, tokens, isEncrypted>>
         /\ syncEvt.Timestamp = start => out'.op # "old"]_vars

C7_Witness ==
    /\ out.op = "old"
    /\ languages # EmptyMap /\ tokens # EmptyMap

\* C8: an event sent by the bot itself is discarded: no reply, no call of
\* the store, languages and bindings unchanged.
C8_OwnEventsDiscarded ==
    [][(Handled /\ syncEvt.Sender = userID) =>
         /\ out'.op \in {"old", "self"} /\ out'.calls = <<>>
         /\ UNCHANGED <<languages, matrix, tokens, isEncrypted>>]_vars

C8_Witness ==
    /\ out.op = "self"
    /\ languages # EmptyMap /\ tokens # EmptyMap

\* C9: after an accepted "!lang c" from room R with c recognized, the
\* cached language of R is c and that of every other room is unchanged.
C9_LangRoundTrip ==
    [][\A c \in Telegram :
         (Handled /\ Accepted /\ syncEvt.body = <<"!lang", " ", c>>) =>
            /\ DOMAIN languages' = DOMAIN languages \cup {syncEvt.RoomID}
            /\ languages'[syncEvt.RoomID] = c
            /\ \A r \in DOMAIN languages \ {syncEvt.RoomID} :
                 languages'[r] = languages[r]]_vars

\* Room 1 was seeded with the unrecognized "de" and now reads "fr".
C9_Witness ==
    /\ out.op = "set"
    /\ 1 \in DOMAIN matrix /\ matrix[1].Encrypted
    /\ 1 \in DOMAIN languages /\ languages[1] = "fr"
    /\ RoomLang(1) = "fr"
    /\ 2 \in rooms

\* C10: an accepted "!lang c" with c not a recognized code changes
\* neither the languages nor the bindings, calls no store and sends no reply.
C10_UnrecognizedIgnored ==
    [][(/\ Handled /\ Accepted
        /\ Len(syncEvt.body) = 3
        /\ syncEvt.body[1] = "!lang" /\ syncEvt.body[2] = " "
        /\ syncEvt.body[3] \notin Telegram \cup {" "}) =>
         /\ out'.calls = <<>>
         /\ UNCHANGED <<languages, matrix, tokens, isEncrypted>>]_vars

C10_Witness ==
    /\ out.op = "unrecognized"
    /\ languages # EmptyMap /\ tokens # EmptyMap

\* Room R has a binding: a stored one, or one pending in tokens.
HasBinding(R) ==
    \/ R \in DOMAIN matrix
    \/ \E pin \in DOMAIN tokens : tokens[pin].User.RoomID = R

\* C11: after an accepted "!lang c" with c recognized from a room that has
\* a binding (stored, or pending in tokens), the binding has language c,
\* the store is saved exactly once, and the cached language of the room is c.
C11_BindingFollows ==
    [][\A c \in Telegram :
         (/\ Handled /\ Accepted
          /\ syncEvt.body = <<"!lang", " ", c>>
          /\ HasBinding(syncEvt.RoomID)) =>
            /\ languages'[syncEvt.RoomID] = c
            /\ syncEvt.RoomID \in DOMAIN matrix => matrix'[syncEvt.RoomID].Lang = c
            /\ \A pin \in DOMAIN tokens :
                 tokens[pin].User.RoomID = syncEvt.RoomID =>
                    tokens'[pin].User.Lang = c
            /\ Len(out'.calls) = 1
            /\ out'.calls[1].api = "storeMatrixUsers"]_vars

\* C12: a delivery of Send that fails while recipients remain after it does
\* not end the call: Send goes on to the next recipient; and Send returns
\* nil only when no recipient is left.
C12_IndependentDelivery ==
    [][(/\ sd.pc \in {"loop", "send"}
        /\ out'.op = "Send") =>
         /\ (out'.calls # <<>> /\ ~out'.calls[1].ok /\ sd.left > 1) =>
               (sd'.pc = "loop" /\ sd'.left = sd.left - 1)
         /\ out'.ret = "nil" => sd.left = 0]_vars

\* C13: every call of Shutdown, the first and any later one, leaves the
\* sync loop stopped, Stopped true and the channel closed, and does not
\* fault: the channel is not closed a second time.
C13_ShutdownIdempotent ==
    out.proc = "shutdown" =>
        /\ ~syncing /\ Stopped /\ closed
        /\ out.op = "Shutdown"
        /\ ~crashed

\* C14: once Shutdown has completed, a call of SendStart returns false
\* without asking for a room, and a call of Send does not enter its
\* delivery loop.
C14_NoSendAfterShutdown ==
    [][Stopped =>
         /\ \A p \in Starters :
              ss[p].pc = "idle" =>
                 /\ ss'[p].pc = "idle"
                 /\ out'.proc = p => (out'.calls = <<>> /\ out'.ret = "false")
         /\ sd.pc = "idle" => sd'.pc = "idle"]_vars

\* C15: when the save of the store fails after an accepted "!lang c" with c
\* recognized, the cached language of the room and the stored binding both
\* hold c afterwards, nothing but the failed save was called (no reply), and
\* the language the dispatcher passes for later events of the room is c.
C15_NoRollback ==
    [][\A c \in Telegram :
         (/\ Handled /\ Accepted
          /\ syncEvt.body = <<"!lang", " ", c>>
          /\ \E i \in DOMAIN out'.calls :
               out'.calls[i] = Call("storeMatrixUsers", syncEvt.RoomID, FALSE)) =>
            /\ Len(out'.calls) = 1
            /\ syncEvt.RoomID \in DOMAIN languages'
            /\ languages'[syncEvt.RoomID] = c
            /\ syncEvt.RoomID \in DOMAIN matrix'
            /\ matrix'[syncEvt.RoomID].Lang = c
            /\ (IF languages'[syncEvt.RoomID] \in Telegram
                THEN languages'[syncEvt.RoomID] ELSE DefaultLang) = c]_vars

\* The save failed for room 1, seeded with "de", and both maps read "fr".
C15_Witness ==
    /\ out.op = "set"
    /\ out.calls = <<Call("storeMatrixUsers", 1, FALSE)>>
    /\ languages[1] = "fr" /\ matrix[1].Lang = "fr"
    /\ matrix[1].Encrypted
    /\ RoomLang(1) = "fr"

\* C16: an entry of isEncrypted, once present, is never removed and never
\* changes its value, whatever handleMessage, SendStart, Send and Shutdown do.
C16_EncryptedImmutable ==
    [][\A r \in DOMAIN isEncrypted :
         /\ r \in DOMAIN isEncrypted'
         /\ isEncrypted'[r] = isEncrypted[r]]_vars

\* Both kinds of entry exist, a language was changed and the daemon was
\* shut down after a call of Send.
C16_Witness ==
    /\ 1 \in DOMAIN matrix /\ isEncrypted[1]
    /\ 2 \in DOMAIN isEncrypted /\ ~isEncrypted[2]
    /\ 1 \in DOMAIN languages /\ languages[1] = "fr"
    /\ 2 \in DOMAIN languages
    /\ Stopped
    /\ out.op = "Send" /\ out.ret = "nil"

\* C17: every pending token is unverified, and no step removes a token or
\* changes the room or the user of an existing one.
C17_TokensOnlyGrow ==
    [][/\ \A pin \in DOMAIN tokens' : ~tokens'[pin].Verified
       /\ \A pin \in DOMAIN tokens :
            /\ pin \in DOMAIN tokens'
            /\ tokens'[pin].User.RoomID = tokens[pin].User.RoomID
            /\ tokens'[pin].User.UserID = tokens[pin].User.UserID]_vars

\* C18: an accepted event without a text body is discarded: no fault, no
\* reply, no change of state, and the dispatcher goes on.
C18_NoBodyDiscarded ==
    [][(Handled /\ Accepted /\ syncEvt.body = NoBody) =>
         /\ ~crashed'
         /\ syncing'
         /\ out'.calls = <<>>
         /\ UNCHANGED <<languages, matrix, tokens, isEncrypted>>]_vars

\* C19: the pending token of a SendStart call is stored before the welcome
\* message is sent and is not taken back: when the call returns false after
\* the room was created, its PIN is registered with an unverified token;
\* when it returns false because room creation failed, tokens is unchanged
\* and the call has no PIN.
C19_TokenBeforeWelcome ==
    [][\A p \in Starters :
         /\ (ss[p].pc = "store" /\ ss'[p].pc = "send") =>
               /\ ss[p].pin \in DOMAIN tokens'
               /\ tokens'[ss[p].pin] =
                     [Verified |-> FALSE,
                      User |-> MatrixUser(ss[p].roomID, ss[p].encrypted,
                                          ss[p].userID, DefaultLang)]
               /\ out'.calls = <<>>
         /\ (ss[p].pc = "send" /\ ss'[p].pc = "idle") =>
               /\ tokens' = tokens
               /\ out'.pin = ss[p].pin
               /\ out'.pin \in DOMAIN tokens'
               /\ ~tokens'[out'.pin].Verified
         /\ (ss[p].pc = "idle" /\ out'.proc = p /\ out'.op = "SendStart") =>
               /\ out'.ret = "false" /\ ~out'.calls[1].ok
               /\ out'.pin = 0
               /\ tokens' = tokens]_vars

\* SendStart returned false for a failed welcome send and its token is pending.
C19_Witness ==
    /\ out.op = "SendStart" /\ out.ret = "false"
    /\ Len(out.calls) = 3 /\ ~out.calls[3].ok
    /\ out.pin \in DOMAIN tokens
    /\ tokens[out.pin] = UnverifiedUser(FALSE, out.user)

\* The number of tokens strings.Split(body, " ") yields: one more than the
\* number of spaces.
TokenCount(body) == Cardinality({i \in DOMAIN body : body[i] = " "}) + 1

\* C20: an accepted "!lang" message changes the language only when it has
\* exactly two tokens; with any other number of tokens the listing is sent
\* with SendText and the languages, the bindings, the tokens and the store
\* are left alone.
C20_TwoTokensOnly ==
    [][(/\ Handled /\ Accepted
        /\ syncEvt.body # NoBody
        /\ syncEvt.body[1] = "!lang") =>
         /\ TokenCount(syncEvt.body) # 2 =>
               /\ out'.op = "list"
               /\ Len(out'.calls) = 1
               /\ out'.calls[1].api = "SendText"
               /\ out'.calls[1].room = syncEvt.RoomID
               /\ UNCHANGED <<languages, matrix, tokens, isEncrypted>>
         /\ (languages' # languages \/ matrix' # matrix \/ out'.op = "set") =>
               TokenCount(syncEvt.body) = 2]_vars

\* The listing went out with SendText to room 1, which is encrypted, and
\* the language of the room is still the seeded one.
C20_Witness ==
    /\ out.op = "list"
    /\ out.calls = <<Call("SendText", 1, TRUE)>>
    /\ CachedEncrypted(1)
    /\ 1 \in DOMAIN languages /\ languages[1] = "de"
    /\ 1 \in DOMAIN matrix /\ matrix[1].Lang = "de"
    /\ tokens # EmptyMap

====
